---------------------------- MODULE Spec2Model ----------------------------
(***************************************************************************)
(* PNG container layer of maya (src/filetype_support/png.rs): the chunk    *)
(* type registry, the header field parser and the chunk reader, together   *)
(* with the chunk writer and the pixel LSB codec the design document       *)
(* describes.                                                              *)
(*                                                                         *)
(* Bytes are the integers 0..255.  A u32 that is only compared or XOR-ed   *)
(* (the CRC-32) is kept as its four big-endian bytes; a u32 that is used   *)
(* as a number (a length, a width) is an integer, and the inputs keep its  *)
(* top byte below 128 so that it stays inside the integers of TLC.         *)
(***************************************************************************)
EXTENDS Integers, Sequences, FiniteSets, TLC

VARIABLES
    code,       \* registry: the ChunkType being classified
    flags,      \* registry: the four classifications of code, or NoFlags
    hdr_data,   \* header parser: the slice handed to parse_ihdr
    ihdr,       \* header parser: outcome of parse_ihdr, or NoResult
    reader,     \* chunk codec: every byte of the stream behind the reader
    pos,        \* chunk codec: number of bytes the reader has consumed
    frames,     \* chunk codec: how each chunk of the stream was produced
    result,     \* chunk codec: outcome of the last read_chunk, or NoResult
    pixels,     \* pixel codec: the channel bytes before embedding
    payload,    \* pixel codec: the bits to embed
    stego,      \* pixel codec: outcome of embed, or NoResult
    extracted   \* pixel codec: outcome of extract, or NoResult

vars == <<code, flags, hdr_data, ihdr, reader, pos, frames, result,
          pixels, payload, stego, extracted>>

Byte == 0..255

NoResult == [kind |-> "none"]
NoFlags == [kind |-> "none"]

(***************************************************************************)
(* Bit operations on bytes                                                 *)
(***************************************************************************)
RECURSIVE BitAnd(_, _)
BitAnd(a, b) ==
    IF a = 0 \/ b = 0 THEN 0
    ELSE (a % 2) * (b % 2) + 2 * BitAnd(a \div 2, b \div 2)

RECURSIVE BitXor(_, _)
BitXor(a, b) ==
    IF a = 0 THEN b
    ELSE IF b = 0 THEN a
    ELSE ((a + b) % 2) + 2 * BitXor(a \div 2, b \div 2)

\* XOR of two u32 values held as four bytes
Xor32(x, y) == [i \in 1..4 |-> BitXor(x[i], y[i])]

\* x >> 1 and x >> 8 of a u32 held as four big-endian bytes
Shr1(x) ==
    [i \in 1..4 |->
        (x[i] \div 2) + (IF i > 1 THEN 128 * (x[i - 1] % 2) ELSE 0)]

Shr8(x) == <<0, x[1], x[2], x[3]>>

(***************************************************************************)
(* CRC-32 (IEEE 802.3, reflected polynomial EDB88320), table driven        *)
(***************************************************************************)
IEEE == <<237, 184, 131, 32>>

RECURSIVE CrcTableEntry(_, _)
CrcTableEntry(c, k) ==
    IF k = 0 THEN c
    ELSE CrcTableEntry(IF c[4] % 2 = 1 THEN Xor32(Shr1(c), IEEE) ELSE Shr1(c),
                       k - 1)

IEEE_TABLE == [n \in Byte |-> CrcTableEntry(<<0, 0, 0, n>>, 8)]

RECURSIVE CrcUpdate(_, _)
CrcUpdate(crc, bytes) ==
    IF bytes = <<>> THEN crc
    ELSE CrcUpdate(Xor32(IEEE_TABLE[BitXor(crc[4], Head(bytes))], Shr8(crc)),
                   Tail(bytes))

checksum_ieee(bytes) ==
    Xor32(CrcUpdate(<<255, 255, 255, 255>>, bytes), <<255, 255, 255, 255>>)

\* u32::from_be_bytes, as a number
from_be_bytes(b) == ((b[1] * 256 + b[2]) * 256 + b[3]) * 256 + b[4]

\* u32::to_be_bytes of a number below 2^31
to_be_bytes(n) ==
    <<(n \div 16777216) % 256, (n \div 65536) % 256, (n \div 256) % 256, n % 256>>

(***************************************************************************)
(* Chunk type registry                                                     *)
(***************************************************************************)
PNG_MAGIC == <<137, 80, 78, 71, 13, 10, 26, 10>>

\* -- Critical chunks --
IHDR == <<73, 72, 68, 82>>
PLTE == <<80, 76, 84, 69>>
IDAT == <<73, 68, 65, 84>>
IEND == <<73, 69, 78, 68>>

\* -- Ancillary chunks --
tRNS == <<116, 82, 78, 83>>
bKGD == <<98, 75, 71, 68>>
tIME == <<116, 73, 77, 69>>
pHYs == <<112, 72, 89, 115>>
cHRM == <<99, 72, 82, 77>>
gAMA == <<103, 65, 77, 65>>
sRGB == <<115, 82, 71, 66>>
iCCP == <<105, 67, 67, 80>>
cICP == <<99, 73, 67, 80>>
mDCV == <<109, 68, 67, 86>>
cLLI == <<99, 76, 76, 73>>
eXIf == <<101, 88, 73, 102>>
tEXt == <<116, 69, 88, 116>>
zTXt == <<122, 84, 88, 116>>
iTXt == <<105, 84, 88, 116>>
sBIT == <<115, 66, 73, 84>>

\* -- Extension chunks --
acTL == <<97, 99, 84, 76>>
fcTL == <<102, 99, 84, 76>>
fdAT == <<102, 100, 65, 84>>

CriticalChunks == {IHDR, PLTE, IDAT, IEND}

AncillaryChunks ==
    {tRNS, bKGD, tIME, pHYs, cHRM, gAMA, sRGB, iCCP, cICP, mDCV, cLLI, eXIf,
     tEXt, zTXt, iTXt, sBIT}

ExtensionChunks == {acTL, fcTL, fdAT}

NamedChunks == CriticalChunks \cup AncillaryChunks \cup ExtensionChunks

is_critical(type_) == BitAnd(type_[1], 32) = 0

\* is_private testing bit 4 instead of bit 5
is_private_bit4(type_) == BitAnd(type_[2], 16) # 0

is_private(type_) == BitAnd(type_[2], 32) # 0

\* reserved_set testing the last byte of the code
reserved_set_byte3(type_) == BitAnd(type_[4], 32) # 0

reserved_set(type_) == BitAnd(type_[3], 32) # 0

safe_to_copy(type_) == BitAnd(type_[4], 32) # 0


Flags(type_) ==
    [kind |-> "flags",
     critical |-> is_critical(type_),
     private |-> is_private(type_),
     reserved |-> reserved_set(type_),
     safe |-> safe_to_copy(type_)]

(***************************************************************************)
(* Header field parser                                                     *)
(***************************************************************************)
\* parse_ihdr with the width decoded in little-endian order
parse_ihdr_le(data) ==
    IF Len(data) < 13
    THEN [kind |-> "panic", index |-> Len(data)]
    ELSE [kind |-> "IHDRData",
          width |-> from_be_bytes(<<data[4], data[3], data[2], data[1]>>),
          height |-> from_be_bytes(<<data[5], data[6], data[7], data[8]>>),
          bit_depth |-> data[9],
          color_type |-> data[10],
          compression_method |-> data[11],
          filter_method |-> data[12],
          interlace_method |-> data[13]]

\* Indexing a slice past its end panics; the fields are evaluated in
\* order, so the first index that fails is the length of the slice.
parse_ihdr(data) ==
    IF Len(data) < 13
    THEN [kind |-> "panic", index |-> Len(data)]
    ELSE [kind |-> "IHDRData",
          width |-> from_be_bytes(<<data[1], data[2], data[3], data[4]>>),
          height |-> from_be_bytes(<<data[5], data[6], data[7], data[8]>>),
          bit_depth |-> data[9],
          color_type |-> data[10],
          compression_method |-> data[11],
          filter_method |-> data[12],
          interlace_method |-> data[13]]

(***************************************************************************)
(* Chunk stream codec                                                      *)
(***************************************************************************)
\* Reader::read_exact of n bytes at offset p: whether the bytes are there
HasBytes(stream, p, n) == p + n <= Len(stream)

Bytes(stream, p, n) == SubSeq(stream, p + 1, p + n)

Eof(p, q, field) ==
    [kind |-> "UnexpectedEof", at |-> p, short_at |-> q, field |-> field]

\* read_chunk with the length field decoded in little-endian order
read_chunk_le(stream, p) ==
    IF ~HasBytes(stream, p, 4) THEN Eof(p, p, "length")
    ELSE
    LET length_bytes == Bytes(stream, p, 4)
        length == from_be_bytes(<<length_bytes[4], length_bytes[3],
                                 length_bytes[2], length_bytes[1]>>)
    IN  IF ~HasBytes(stream, p + 4, 4) THEN Eof(p, p + 4, "type")
        ELSE
        LET chunk_type == Bytes(stream, p + 4, 4)
        IN  IF ~HasBytes(stream, p + 8, length) THEN Eof(p, p + 8, "data")
            ELSE
            LET data == Bytes(stream, p + 8, length)
            IN  IF ~HasBytes(stream, p + 8 + length, 4)
                THEN Eof(p, p + 8 + length, "crc")
                ELSE
                LET crc_bytes == Bytes(stream, p + 8 + length, 4)
                    crc == checksum_ieee(chunk_type)
                    expected_crc == crc_bytes
                IN  IF crc # expected_crc
                    THEN [kind |-> "InvalidData", at |-> p,
                          end |-> p + 12 + length]
                    ELSE [kind |-> "Ok", at |-> p,
                          chunk_type |-> chunk_type, data |-> data,
                          end |-> p + 12 + length]

\* read_chunk whose last read accepts a short count and keeps the zeros
\* of the buffer for the bytes that are missing
read_chunk_short_crc(stream, p) ==
    IF ~HasBytes(stream, p, 4) THEN Eof(p, p, "length")
    ELSE
    LET length_bytes == Bytes(stream, p, 4)
        length == from_be_bytes(length_bytes)
    IN  IF ~HasBytes(stream, p + 4, 4) THEN Eof(p, p + 4, "type")
        ELSE
        LET chunk_type == Bytes(stream, p + 4, 4)
        IN  IF ~HasBytes(stream, p + 8, length) THEN Eof(p, p + 8, "data")
            ELSE
            LET data == Bytes(stream, p + 8, length)
            IN  LET crc_bytes ==
                        [i \in 1..4 |->
                            IF p + 8 + length + i <= Len(stream)
                            THEN stream[p + 8 + length + i] ELSE 0]
                    crc == checksum_ieee(chunk_type)
                    expected_crc == crc_bytes
                IN  IF crc # expected_crc
                    THEN [kind |-> "InvalidData", at |-> p,
                          end |-> p + 12 + length]
                    ELSE [kind |-> "Ok", at |-> p,
                          chunk_type |-> chunk_type, data |-> data,
                          end |-> p + 12 + length]

\* read_chunk on a reader that has consumed p bytes of stream.  "end" is
\* the number of bytes consumed when all four reads were served.  After a
\* read that came up short the position of the reader is unspecified.
read_chunk(stream, p) ==
    IF ~HasBytes(stream, p, 4) THEN Eof(p, p, "length")
    ELSE
    LET length_bytes == Bytes(stream, p, 4)
        length == from_be_bytes(length_bytes)
    IN  IF ~HasBytes(stream, p + 4, 4) THEN Eof(p, p + 4, "type")
        ELSE
        LET chunk_type == Bytes(stream, p + 4, 4)
        IN  IF ~HasBytes(stream, p + 8, length) THEN Eof(p, p + 8, "data")
            ELSE
            LET data == Bytes(stream, p + 8, length)
            IN  IF ~HasBytes(stream, p + 8 + length, 4)
                THEN Eof(p, p + 8 + length, "crc")
                ELSE
                LET crc_bytes == Bytes(stream, p + 8 + length, 4)
                    crc == checksum_ieee(chunk_type)
                    expected_crc == crc_bytes
                IN  IF crc # expected_crc
                    THEN [kind |-> "InvalidData", at |-> p,
                          end |-> p + 12 + length]
                    ELSE [kind |-> "Ok", at |-> p,
                          chunk_type |-> chunk_type, data |-> data,
                          end |-> p + 12 + length]

\* write_chunk of the design document: length, type code, data, and the
\* CRC-32 of type code and data
write_chunk(record) ==
    to_be_bytes(Len(record.data)) \o record.chunk_type \o record.data
        \o checksum_ieee(record.chunk_type \o record.data)

\* A chunk as another producer frames it: the length field in the byte
\* order of that producer, and the CRC-32 of the type code alone
length_field(order, n) ==
    IF order = "le"
    THEN <<to_be_bytes(n)[4], to_be_bytes(n)[3], to_be_bytes(n)[2],
           to_be_bytes(n)[1]>>
    ELSE to_be_bytes(n)

foreign_chunk(order, record) ==
    length_field(order, Len(record.data)) \o record.chunk_type \o record.data
        \o checksum_ieee(record.chunk_type)

(***************************************************************************)
(* Pixel LSB codec, over the flat sequence of channel bytes                *)
(***************************************************************************)
\* embed that adds the payload bit to the channel byte
embed_add(channels, bits) ==
    IF Len(bits) > Len(channels)
    THEN [kind |-> "PayloadTooLarge"]
    ELSE [kind |-> "Ok",
          pixels |-> [i \in 1..Len(channels) |->
                         IF i <= Len(bits)
                         THEN (channels[i] + bits[i]) % 256
                         ELSE channels[i]]]

embed(channels, bits) ==
    IF Len(bits) > Len(channels)
    THEN [kind |-> "PayloadTooLarge"]
    ELSE [kind |-> "Ok",
          pixels |-> [i \in 1..Len(channels) |->
                         IF i <= Len(bits)
                         THEN (channels[i] - (channels[i] % 2)) + bits[i]
                         ELSE channels[i]]]

extract(channels, bit_count) ==
    IF bit_count > Len(channels)
    THEN [kind |-> "InsufficientCapacity", count |-> bit_count]
    ELSE [kind |-> "Ok", count |-> bit_count,
          bits |-> [i \in 1..bit_count |-> channels[i] % 2]]

(***************************************************************************)
(* Inputs                                                                  *)
(***************************************************************************)
\* Sequences over S of length at most n
SeqsUpTo(S, n) == UNION {[1..k -> S] : k \in 0..n}

\* Bytes that differ in bit 5 only, in other bits only, or in all bits
ProbeBytes == {0, 16, 32, 64, 223, 255}

TypeCodes == NamedChunks \cup [1..4 -> ProbeBytes]

MaxExtra == 1

DimBytes ==
    {<<0, 0, 0, 0>>, <<0, 0, 0, 16>>, <<0, 0, 0, 32>>, <<1, 2, 3, 4>>,
     <<127, 255, 255, 255>>}

HdrFull ==
    {w \o h \o <<bd, ct, cm, fm, im>> \o x :
        w \in DimBytes, h \in DimBytes, bd \in {0, 8, 255}, ct \in {0, 2, 7},
        cm \in {0, 1}, fm \in {0, 3}, im \in {0, 1},
        x \in SeqsUpTo({0, 255}, MaxExtra)}

\* Every header payload above, and every proper prefix of one
HdrInputs == UNION {{SubSeq(f, 1, n) : n \in 0..Len(f)} : f \in HdrFull}

MaxDataLen == 1

MaxChunks == 2

\* HgAD is a type code whose CRC-32 is also the CRC-32 of HgAD followed by
\* the byte 238
HgAD == <<72, 103, 65, 68>>

ChunkTypes == {IDAT, HgAD}

DataBytes == {0, 238}

Records ==
    [chunk_type : ChunkTypes, data : SeqsUpTo(DataBytes, MaxDataLen)]

\* Byte orders in which a foreign producer writes the length field
ByteOrders == {"be", "le"}

MaxPixels == 3

MaxBits == 3

PixelBytes == {0, 1, 254, 255}

(***************************************************************************)
(* State machine                                                           *)
(***************************************************************************)
RegistryIdle == code = <<>> /\ flags = NoFlags
HeaderIdle == hdr_data = <<>> /\ ihdr = NoResult
CodecIdle ==
    reader = <<>> /\ pos = 0 /\ frames = <<>> /\ result = NoResult
PixelIdle ==
    pixels = <<>> /\ payload = <<>> /\ stego = NoResult /\ extracted = NoResult

registryVars == <<code, flags>>
headerVars == <<hdr_data, ihdr>>
codecVars == <<reader, pos, frames, result>>
pixelVars == <<pixels, payload, stego, extracted>>

\* ---- registry ----
TypeInit ==
    /\ code \in TypeCodes
    /\ flags = NoFlags
    /\ HeaderIdle /\ CodecIdle /\ PixelIdle

Classify ==
    /\ flags = NoFlags
    /\ flags' = Flags(code)
    /\ UNCHANGED <<code, headerVars, codecVars, pixelVars>>

TypeNext == Classify

SpecType == TypeInit /\ [][TypeNext]_vars

\* ---- header parser ----
HdrInit ==
    /\ hdr_data \in HdrInputs
    /\ ihdr = NoResult
    /\ RegistryIdle /\ CodecIdle /\ PixelIdle

ParseIhdr ==
    /\ ihdr = NoResult
    /\ ihdr' = parse_ihdr(hdr_data)
    /\ UNCHANGED <<hdr_data, registryVars, codecVars, pixelVars>>

HdrNext == ParseIhdr

SpecHdr == HdrInit /\ [][HdrNext]_vars

\* ---- chunk codec ----
ChunkInit ==
    /\ reader = <<>>
    /\ pos = 0
    /\ frames = <<>>
    /\ result = NoResult
    /\ RegistryIdle /\ HeaderIdle /\ PixelIdle

\* The stream is still being produced by the producer named: nothing was
\* read, the chunks so far are of that producer, and the last one was not
\* damaged
Producing(by) ==
    /\ pos = 0
    /\ result = NoResult
    /\ frames # <<>> =>
           /\ frames[1].by = by
           /\ frames[Len(frames)].damage = "none"

Frame(by, record, bytes) ==
    [by |-> by, record |-> record, start |-> Len(reader), len |-> Len(bytes),
     damage |-> "none"]

WriteChunk(record) ==
    /\ Producing("write_chunk")
    /\ Len(frames) < MaxChunks
    /\ reader' = reader \o write_chunk(record)
    /\ frames' = Append(frames, Frame("write_chunk", record, write_chunk(record)))
    /\ UNCHANGED <<pos, result, registryVars, headerVars, pixelVars>>

FeedChunk(order, record) ==
    /\ Producing(order)
    /\ Len(frames) < MaxChunks
    /\ reader' = reader \o foreign_chunk(order, record)
    /\ frames' = Append(frames,
                        Frame(order, record, foreign_chunk(order, record)))
    /\ UNCHANGED <<pos, result, registryVars, headerVars, pixelVars>>

\* One data byte of the last chunk, written by write_chunk, is changed
FlipDataByte(i, v) ==
    /\ Producing("write_chunk")
    /\ frames # <<>>
    /\ LET f == frames[Len(frames)]
       IN  /\ i \in 1..Len(f.record.data)
           /\ v # f.record.data[i]
           /\ reader' = [reader EXCEPT ![f.start + 8 + i] = v]
           /\ frames' = [frames EXCEPT ![Len(frames)].damage = "flipped"]
    /\ UNCHANGED <<pos, result, registryVars, headerVars, pixelVars>>

\* The stream loses its last n bytes, all of them bytes of the last chunk
Truncate(n) ==
    /\ frames # <<>>
    /\ Producing(frames[1].by)
    /\ n \in 1..frames[Len(frames)].len
    /\ reader' = SubSeq(reader, 1, Len(reader) - n)
    /\ frames' = [frames EXCEPT ![Len(frames)].damage = "truncated"]
    /\ UNCHANGED <<pos, result, registryVars, headerVars, pixelVars>>

\* One call of read_chunk.  A call that fails with UnexpectedEof leaves the
\* reader either where the short read began or at the end of the stream,
\* and the pass over the stream ends there.
ReadChunk ==
    /\ result.kind # "UnexpectedEof"
    /\ result' = read_chunk(reader, pos)
    /\ IF result'.kind = "UnexpectedEof"
       THEN pos' \in {result'.short_at, Len(reader)}
       ELSE pos' = result'.end
    /\ UNCHANGED <<reader, frames, registryVars, headerVars, pixelVars>>

ChunkNext ==
    \/ \E r \in Records : WriteChunk(r)
    \/ \E r \in Records : \E order \in ByteOrders : FeedChunk(order, r)
    \/ \E i \in 1..MaxDataLen : \E v \in DataBytes : FlipDataByte(i, v)
    \/ \E n \in 1..(12 + MaxDataLen) : Truncate(n)
    \/ ReadChunk

SpecChunk == ChunkInit /\ [][ChunkNext]_vars

\* ---- pixel codec ----
PixelInit ==
    /\ pixels \in SeqsUpTo(PixelBytes, MaxPixels)
    /\ payload \in SeqsUpTo({0, 1}, MaxBits)
    /\ stego = NoResult
    /\ extracted = NoResult
    /\ RegistryIdle /\ HeaderIdle /\ CodecIdle

Embed ==
    /\ stego = NoResult
    /\ stego' = embed(pixels, payload)
    /\ UNCHANGED <<pixels, payload, extracted, registryVars, headerVars,
                   codecVars>>

Extract(bit_count) ==
    /\ stego.kind = "Ok"
    /\ extracted = NoResult
    /\ extracted' = extract(stego.pixels, bit_count)
    /\ UNCHANGED <<pixels, payload, stego, registryVars, headerVars,
                   codecVars>>

PixelNext == Embed \/ \E n \in 0..MaxBits : Extract(n)

SpecPixel == PixelInit /\ [][PixelNext]_vars

(***************************************************************************)
(* Properties                                                              *)
(***************************************************************************)
\* The value of bit 5 of a byte, and a big-endian u32, stated arithmetically
Bit5(b) == (b \div 32) % 2

BigEndianU32(b) == b[1] * 16777216 + b[2] * 65536 + b[3] * 256 + b[4]

\* The frames whose first byte is where the last read_chunk began
FramesRead == {k \in 1..Len(frames) : frames[k].start = result.at}

\* C1: reading the bytes write_chunk produced for a record R succeeds and
\* returns R: the same type code and the same data bytes.
C1_RoundTrip ==
    result.kind # "none" =>
        \A k \in FramesRead :
            (frames[k].by = "write_chunk" /\ frames[k].damage = "none") =>
                /\ result.kind = "Ok"
                /\ result.chunk_type = frames[k].record.chunk_type
                /\ result.data = frames[k].record.data

\* C2: after one data byte of a written record was changed to another
\* value, read_chunk fails with the checksum-mismatch error.
C2_FlipIsChecksumMismatch ==
    result.kind # "none" =>
        \A k \in FramesRead :
            (frames[k].by = "write_chunk" /\ frames[k].damage = "flipped") =>
                result.kind = "InvalidData"

\* C3: a read_chunk that succeeds has consumed 4 + 4 + length + 4 bytes,
\* length being the big-endian u32 of the first four; its data is the
\* length bytes at offsets 8 .. 8+length, and the reader then stands at the
\* first byte of the next chunk (or at the end of the stream).
C3_ConsumesExactly ==
    result.kind = "Ok" =>
        LET length == BigEndianU32(SubSeq(reader, result.at + 1, result.at + 4))
        IN  /\ pos = result.at + 4 + 4 + length + 4
            /\ Len(result.data) = length
            /\ \A i \in 1..length : result.data[i] = reader[result.at + 8 + i]
            /\ \/ pos = Len(reader)
               \/ \E k \in 1..Len(frames) : frames[k].start = pos

C3_Witness ==
    /\ result.kind = "Ok"
    /\ result.at > 0
    /\ Len(result.data) > 0
    /\ Len(frames) >= 2

\* C4: when fewer than 4 + 4 + length + 4 bytes remain (the stream ends in
\* the length, the type, the data or the checksum), read_chunk fails with
\* the truncated-stream error and returns no record.
Remaining == Len(reader) - result.at

EndsInsideChunk ==
    \/ Remaining < 4
    \/ Remaining < 4 + 4
              + BigEndianU32(SubSeq(reader, result.at + 1, result.at + 4)) + 4

C4_TruncatedIsEof ==
    (result.kind # "none" /\ EndsInsideChunk) =>
        /\ result.kind = "UnexpectedEof"
        /\ "data" \notin DOMAIN result

C4_Witness ==
    /\ result.kind = "UnexpectedEof"
    /\ result.field = "crc"
    /\ Remaining > 8
    /\ frames[Len(frames)].damage = "truncated"

\* C5: a header payload of fewer than 13 bytes makes the header parser
\* return a MalformedHeader error value, and no header fields.
C5_ShortHeaderIsError ==
    (ihdr.kind # "none" /\ Len(hdr_data) < 13) => ihdr.kind = "MalformedHeader"

\* C6: a payload of at least 13 bytes always parses, to the big-endian
\* width of bytes 0..3, the big-endian height of bytes 4..7 and bytes 8 to
\* 12 as the five one-byte fields, whatever follows byte 12; the example
\* payload gives 16 x 32, bit depth 8, colour type 2, zeros elsewhere.
HeaderExample == <<0, 0, 0, 16, 0, 0, 0, 32, 8, 2, 0, 0, 0>>

C6_HeaderFields ==
    (ihdr.kind # "none" /\ Len(hdr_data) >= 13) =>
        /\ ihdr = [kind |-> "IHDRData",
                   width |-> BigEndianU32(SubSeq(hdr_data, 1, 4)),
                   height |-> BigEndianU32(SubSeq(hdr_data, 5, 8)),
                   bit_depth |-> hdr_data[9],
                   color_type |-> hdr_data[10],
                   compression_method |-> hdr_data[11],
                   filter_method |-> hdr_data[12],
                   interlace_method |-> hdr_data[13]]
        /\ SubSeq(hdr_data, 1, 13) = HeaderExample =>
               /\ ihdr.width = 16 /\ ihdr.height = 32
               /\ ihdr.bit_depth = 8 /\ ihdr.color_type = 2
               /\ ihdr.compression_method = 0 /\ ihdr.filter_method = 0
               /\ ihdr.interlace_method = 0

C6_Witness ==
    /\ ihdr.kind = "IHDRData"
    /\ Len(hdr_data) > 13
    /\ SubSeq(hdr_data, 1, 4) = <<1, 2, 3, 4>>
    /\ ihdr.width = 16909060
    /\ ihdr.height = 0

\* C7: the four classifications are bit 5 of bytes 0, 1, 2 and 3 of the
\* code and nothing else, so that all sixteen combinations occur; IDAT is
\* critical, and a code with bit 5 set in bytes 0 and 1 is private and not
\* critical.
AllCombinationsOccur ==
    \A c \in BOOLEAN, p \in BOOLEAN, r \in BOOLEAN, s \in BOOLEAN :
        \E t \in [1..4 -> {0, 32}] :
            Flags(t) = [kind |-> "flags", critical |-> c, private |-> p,
                        reserved |-> r, safe |-> s]

C7_IndependentBitTests ==
    flags.kind = "flags" =>
        /\ flags.critical = (Bit5(code[1]) = 0)
        /\ flags.private = (Bit5(code[2]) = 1)
        /\ flags.reserved = (Bit5(code[3]) = 1)
        /\ flags.safe = (Bit5(code[4]) = 1)
        /\ code = <<73, 68, 65, 84>> => flags.critical
        /\ (Bit5(code[1]) = 1 /\ Bit5(code[2]) = 1) =>
               (~flags.critical /\ flags.private)
        /\ AllCombinationsOccur

C7_Witness ==
    /\ flags.kind = "flags"
    /\ code = <<255, 32, 223, 0>>
    /\ ~flags.critical /\ flags.private /\ ~flags.reserved /\ ~flags.safe

\* C10: of the named chunk types none has the reserved bit set, exactly
\* IHDR, PLTE, IDAT and IEND are critical, and none of the critical and
\* ancillary ones is private.
C10_NamedChunkTypes ==
    (flags.kind = "flags" /\ code \in NamedChunks) =>
        /\ ~flags.reserved
        /\ flags.critical <=> code \in {IHDR, PLTE, IDAT, IEND}
        /\ code \in CriticalChunks \cup AncillaryChunks => ~flags.private

C10_Witness ==
    /\ flags.kind = "flags"
    /\ code = eXIf
    /\ ~flags.critical /\ ~flags.private /\ ~flags.reserved

\* C8: a stream whose first eight bytes are not the signature
\* 89 50 4E 47 0D 0A 1A 0A fails with InvalidSignature, the signature being
\* checked before the first chunk is read: no chunk is read or returned
\* from such a stream.
BeginsWithSignature ==
    /\ Len(reader) >= 8
    /\ SubSeq(reader, 1, 8) = PNG_MAGIC

C8_SignatureFirst ==
    (result.kind # "none" /\ ~BeginsWithSignature) =>
        /\ result.kind = "InvalidSignature"
        /\ "chunk_type" \notin DOMAIN result

\* C9: with no more payload bits than channel bytes, extracting as many
\* bits as were embedded returns the payload, and embedding changes a
\* channel byte in its least-significant bit at most, and not at all past
\* the payload.
C9_EmbedExtract ==
    /\ (stego.kind # "none" /\ Len(payload) <= Len(pixels)) =>
           /\ stego.kind = "Ok"
           /\ Len(stego.pixels) = Len(pixels)
           /\ \A i \in 1..Len(pixels) :
                  /\ stego.pixels[i] \div 2 = pixels[i] \div 2
                  /\ i > Len(payload) => stego.pixels[i] = pixels[i]
    /\ (extracted.kind # "none" /\ extracted.count = Len(payload)) =>
           /\ extracted.kind = "Ok"
           /\ extracted.bits = payload

C9_Witness ==
    /\ extracted.kind = "Ok"
    /\ payload = <<1, 0>>
    /\ pixels = <<254, 255, 1>>
    /\ stego.pixels = <<255, 254, 1>>
    /\ extracted.bits = <<1, 0>>

=============================================================================
